---- MODULE Spec2Model ----
(***************************************************************************)
(* Model of src/api/intent.js: the edge handler that streams a "search     *)
(* intent analysis": search -> parallel content fetch -> prompt -> relay   *)
(* of the upstream AI stream with keep-alive frames.                        *)
(*                                                                          *)
(* JavaScript runs one task at a time: everything a function does between  *)
(* two awaits of a real I/O event or timer is one atomic step, so an        *)
(* action of this model is the event that resumes the code (a fetch         *)
(* settles, a body read settles, a timer fires, the client cancels)         *)
(* together with all the code that runs until the next such await.          *)
(* The code that runs is written as operators from handler state to         *)
(* handler state (a record h), composed in source order.                    *)
(***************************************************************************)
EXTENDS Integers, Sequences, FiniteSets, TLC

\* ---------------------------------------------------------------- bounds
MaxResults == 2         \* longest "organic" list the search provider returns
MaxChunks == 2          \* most chunks the upstream AI stream produces
MaxStallTicks == 4      \* longest stall of one upstream read, in clock ticks
TicksPerPeriod == 2     \* clock ticks per keep-alive period
MaxRetriesBound == 3    \* largest maxRetries of a direct fetchWithRetry call
SnippetLen == 150       \* length of a search result's snippet, when it has one
MaxRanked == 9          \* longest ranked list given to the fan-out on its own

\* ------------------------------------------------------ program constants
DefaultMaxRetries == 2      \* fetchWithRetry(url, options, maxRetries = 2)
BackoffMs == 1000           \* sleep(1000 * (i + 1))
SearchTimeoutMs == 8000     \* Serper abort timer
JinaTimeoutMs == 12000      \* Jina abort timer
MAX_CHARS == 35000          \* fetchJinaContent truncation
TruncMarkerLen == 16        \* length of "\n\n...(truncated)"
TopN == 8                   \* searchResults.slice(0, 8)
ExcerptLen == 2000          \* res.content.slice(0, 2000)
AiTimeoutMs == 120000       \* AI connection abort timer
KeepAliveMs == 15000        \* keep-alive timer of the relay loop

Min(a, b) == IF a < b THEN a ELSE b

\* Resolution of the relay clock, in ms
TickMs == KeepAliveMs \div TicksPerPeriod

\* JavaScript values that are not strings: a string is modelled by its length.
Null == -1
Undefined == -2
Truthy(s) == s > 0          \* a non-empty string; "", null and undefined are falsy

\* ------------------------------------------------------------ stream frames
\* What controller.enqueue() puts on the wire.  A status frame is the SSE line
\* "data: {json}\n\n" whose delta.content is `text`; code/body fill the two
\* error templates.
Frame(kind, text, code, body) == [kind |-> kind, text |-> text, code |-> code, body |-> body]
StatusFrame(text) == Frame("status", text, 0, "")
NoKeywordFrame == StatusFrame("no-keyword")             \* line 148
SearchingFrame == StatusFrame("searching")              \* line 154
NoSearchApiFrame == StatusFrame("no-search-api")        \* line 162
CaptureFrame(n) == Frame("status", "capture-top", n, "") \* line 166, n = searchResults.length
CollectedFrame == StatusFrame("data-collected")         \* line 193
NoRealtimeFrame == StatusFrame("no-realtime-data")      \* line 196
AiErrorFrame(status, errText) == Frame("status", "AI Error", status, errText)   \* line 251
SystemErrorFrame(message) == Frame("status", "System Error", 0, message)        \* line 287
ChunkFrame(id) == Frame("chunk", "", id, "")            \* line 273, the id-th upstream chunk
KeepAliveFrame == Frame("keepalive", ": keep-alive", 0, "")   \* line 278

\* Error messages (error.message) of the exceptions the pipeline can see.
AbortMsg == "The operation was aborted"
NetworkMsg == "fetch failed"
SliceTypeErrorMsg == "Cannot read properties of undefined (reading 'slice')"
ClosedTypeErrorMsg == "Invalid state: Controller is already closed"
BodyReadMsg == "body read failed"
UpstreamMsg == "upstream read failed"
Unread == "<unread>"        \* errText before upstreamResponse.text() resolved

\* ------------------------------------------------- ReadableStream controller
\* closed: close() was called or the consumer cancelled; closeOk / closeThrown count
\* the close() calls that took effect / that threw; swallowed counts the enqueue
\* failures sendStatus caught.
NewStream == [frames |-> <<>>, closed |-> FALSE, cancelled |-> FALSE,
              closeOk |-> 0, closeThrown |-> 0, swallowed |-> 0]

\* ReadableStreamDefaultControllerCanCloseOrEnqueue
CanCloseOrEnqueue(s) == ~s.closed

\* controller.enqueue(f) where it does not throw
Enqueue(s, f) == [s EXCEPT !.frames = Append(@, f)]

\* controller.close() where it does not throw
CloseOk(s) == [s EXCEPT !.closed = TRUE, !.closeOk = @ + 1]

\* controller.close() where it throws
CloseThrows(s) == [s EXCEPT !.closeThrown = @ + 1]

\* Mutant: the frame is written without regard to the controller's state
sendStatusWritesClosed(s, f) == Enqueue(s, f)

\* sendStatus: enqueue inside try/catch, a failure is logged and dropped
sendStatus(s, f) ==
    IF CanCloseOrEnqueue(s) THEN Enqueue(s, f) ELSE [s EXCEPT !.swallowed = @ + 1]

\* Mutant: start() without the finally block that closes the controller
FinallyCloseOmitted(s) == s

\* finally { try { controller.close(); } catch(e) {} }
FinallyClose(s) == IF CanCloseOrEnqueue(s) THEN CloseOk(s) ELSE CloseThrows(s)

\* catch (error) { sendStatus(System Error: message) } finally { close }
CatchFinally(s, message) == FinallyClose(sendStatus(s, SystemErrorFrame(message)))

\* sendStatus(f); controller.close(); return;  -- inside the try, followed by finally.
\* A close() that throws here is an error thrown inside the try.
StatusCloseReturn(s, f) ==
    LET s1 == sendStatus(s, f)
    IN  IF CanCloseOrEnqueue(s1)
        THEN FinallyClose(CloseOk(s1))
        ELSE CatchFinally(CloseThrows(s1), ClosedTypeErrorMsg)

\* ------------------------------------------------------------------- state
VARIABLES
    req,            \* the request and the environment variables the handler reads
    response,       \* HTTP status of the Response the handler returned (0: none yet)
    pc,             \* where start() is suspended
    stream,         \* the ReadableStream's controller and what was enqueued
    searchResults,  \* let searchResults: null, or the list of result items
    tasks,          \* contentPromises: one entry per element of topResults
    searchContext,  \* let searchContext
    upstreamResponse, \* status of the response fetchWithRetry returned (0: none)
    errText,        \* const errText = await upstreamResponse.text()
    calls,          \* network requests issued so far, per provider
    signal,         \* the AbortSignal given to fetchWithRetry and its abort source
    fr,             \* the activation of fetchWithRetry
    relay           \* reader, readPromise and keep-alive timer of the relay loop

vars == <<req, response, pc, stream, searchResults, tasks, searchContext,
          upstreamResponse, errText, calls, signal, fr, relay>>

\* The handler state as one record, so that the code between two awaits can be
\* written as a composition of operators.
H == [pc |-> pc, stream |-> stream, searchResults |-> searchResults, tasks |-> tasks,
      searchContext |-> searchContext, upstreamResponse |-> upstreamResponse,
      errText |-> errText,
      calls |-> calls, signal |-> signal, fr |-> fr, relay |-> relay]

Apply(h) ==
    /\ pc' = h.pc
    /\ stream' = h.stream
    /\ searchResults' = h.searchResults
    /\ tasks' = h.tasks
    /\ searchContext' = h.searchContext
    /\ upstreamResponse' = h.upstreamResponse
    /\ errText' = h.errText
    /\ calls' = h.calls
    /\ signal' = h.signal
    /\ fr' = h.fr
    /\ relay' = h.relay

\* The outer catch and finally of start(): the pipeline ends with a System Error frame.
Fail(h, message) ==
    [h EXCEPT !.pc = "done", !.stream = CatchFinally(h.stream, message)]

\* ------------------------------------------------------------ upstream relay
\* pending: the reader's queue of unsettled read requests, oldest first;
\* readPromise: the request the loop awaits; issued: requests made so far;
\* delivered: chunks the upstream has handed to read requests; ended: how the
\* upstream ended; timers: keep-alive timers set and neither cleared nor fired;
\* timerLeft: ms until the timer of this iteration fires (Null: cleared);
\* readAge: ms since the awaited read was issued; lastLatency: the readAge at which
\* the read consumed last had settled (Null: none consumed yet); slow: some read
\* has been pending for a whole keep-alive interval.
NoRelay == [pending |-> <<>>, readPromise |-> 0, issued |-> 0, delivered |-> 0,
            ended |-> "no", timers |-> 0, timerLeft |-> Null, readAge |-> 0,
            lastLatency |-> Null, slow |-> FALSE]

\* readPromise = reader.read()
ReaderRead(r) ==
    [r EXCEPT !.pending = Append(@, r.issued + 1), !.issued = @ + 1,
              !.readPromise = r.issued + 1, !.readAge = 0]

\* Mutant: the keep-alive timer set to twice the interval
ArmKeepAliveLate(r) == [r EXCEPT !.timers = @ + 1, !.timerLeft = 2 * KeepAliveMs]

\* timerId = setTimeout(() => reject(new Error('KEEP_ALIVE')), 15000)
ArmKeepAlive(r) == [r EXCEPT !.timers = @ + 1, !.timerLeft = KeepAliveMs]

\* clearTimeout(timerId)
ClearTimeout(r) == [r EXCEPT !.timers = @ - 1, !.timerLeft = Null]

\* The timer's callback ran: the timer is spent
TimerFired(r) == [r EXCEPT !.timers = @ - 1]

\* Mutant: every iteration races a new reader.read()
LoopTopFreshRead(h) == [h EXCEPT !.pc = "relay", !.relay = ArmKeepAlive(ReaderRead(h.relay))]

\* Top of the while loop: a new timer, then await Promise.race([...])
LoopTop(h) == [h EXCEPT !.pc = "relay", !.relay = ArmKeepAlive(h.relay)]

\* const reader = upstreamResponse.body.getReader(); let readPromise = reader.read();
RelayStart(h) == LoopTop([h EXCEPT !.relay = ReaderRead(NoRelay)])

\* Mutant: a read that rejects ends the loop like end-of-stream (the inner catch
\* breaks instead of rethrowing)
RaceReadErrorSwallowed(h, ev, value) ==
    LET r == [h.relay EXCEPT !.lastLatency = h.relay.readAge]
        cleared == ClearTimeout(r)
    IN  CASE ev \in {"error", "done"} ->
                [h EXCEPT !.pc = "done", !.relay = cleared,
                          !.stream = FinallyClose(h.stream)]
          [] OTHER ->
                IF CanCloseOrEnqueue(h.stream)
                THEN LoopTop([h EXCEPT
                        !.stream = Enqueue(h.stream, ChunkFrame(value)),
                        !.relay = ReaderRead(cleared)])
                ELSE Fail([h EXCEPT !.relay = cleared], ClosedTypeErrorMsg)

\* The race settled with the result of readPromise: lines 268-274, and the inner
\* catch for a read that rejected or an enqueue that threw.
RaceRead(h, ev, value) ==
    LET r == [h.relay EXCEPT !.lastLatency = h.relay.readAge]
        cleared == ClearTimeout(r)
    IN  CASE ev = "error" ->
                Fail([h EXCEPT !.relay = r], UpstreamMsg)
          [] ev = "done" ->
                [h EXCEPT !.pc = "done", !.relay = cleared,
                          !.stream = FinallyClose(h.stream)]
          [] OTHER ->
                IF CanCloseOrEnqueue(h.stream)
                THEN LoopTop([h EXCEPT
                        !.stream = Enqueue(h.stream, ChunkFrame(value)),
                        !.relay = ReaderRead(cleared)])
                ELSE Fail([h EXCEPT !.relay = cleared], ClosedTypeErrorMsg)

\* Mutant: after a keep-alive the loop abandons the pending read and races a
\* fresh reader.read()
RaceKeepAliveFreshRead(h) ==
    IF CanCloseOrEnqueue(h.stream)
    THEN LoopTop([h EXCEPT !.stream = Enqueue(h.stream, KeepAliveFrame),
                           !.relay = ReaderRead(h.relay)])
    ELSE Fail(h, ClosedTypeErrorMsg)

\* Mutant: a keep-alive write that fails is caught and the loop continues
RaceKeepAliveWriteGuarded(h) ==
    IF CanCloseOrEnqueue(h.stream)
    THEN LoopTop([h EXCEPT !.stream = Enqueue(h.stream, KeepAliveFrame)])
    ELSE LoopTop(h)

\* The race settled with KEEP_ALIVE: lines 277-279.  The enqueue is not guarded.
RaceKeepAlive(h) ==
    IF CanCloseOrEnqueue(h.stream)
    THEN LoopTop([h EXCEPT !.stream = Enqueue(h.stream, KeepAliveFrame)])
    ELSE Fail(h, ClosedTypeErrorMsg)

\* ------------------------------------------------------------- AI handshake
Ok(status) == status >= 200 /\ status <= 299

\* Mutant: the response is relayed without the upstreamResponse.ok test
AiReturnNoOkTest(h, res) ==
    RelayStart([h EXCEPT !.signal.armed = FALSE, !.upstreamResponse = res])

\* Lines 247-257 after fetchWithRetry returned.
AiReturn(h, res) ==
    LET h1 == [h EXCEPT !.signal.armed = FALSE, !.upstreamResponse = res]
    IN  IF ~Ok(res) THEN [h1 EXCEPT !.pc = "ai_errbody"] ELSE RelayStart(h1)

\* Lines 250-253 once upstreamResponse.text() settled.
AiErrorBody(h, ok, text) ==
    IF ok
    THEN [h EXCEPT !.pc = "done", !.errText = text,
             !.stream = StatusCloseReturn(h.stream, AiErrorFrame(h.upstreamResponse, text))]
    ELSE Fail(h, BodyReadMsg)

\* ------------------------------------------------------------ fetchWithRetry
Response(status) == [status |-> status, error |-> "none"]
Failure(name) == [status |-> 0, error |-> name]
ErrorMessage(name) == IF name = "AbortError" THEN AbortMsg ELSE NetworkMsg

\* state: idle | fetch (awaiting fetch) | sleep (awaiting sleep) | returned | thrown;
\* log: the outcome of each attempt; delays: the ms of each sleep() call.
FrIdle == [caller |-> "none", state |-> "idle", maxRetries |-> 0, i |-> 0,
           lastError |-> "none", log |-> <<>>, delays |-> <<>>, result |-> Failure("none")]

\* return res
FrReturn(h, o) ==
    IF h.fr.caller = "handler"
    THEN AiReturn([h EXCEPT !.fr = FrIdle], o.status)
    ELSE [h EXCEPT !.fr.state = "returned", !.fr.result = o, !.pc = "direct_done"]

\* throw e
FrThrow(h, o) ==
    IF h.fr.caller = "handler"
    THEN Fail([h EXCEPT !.fr = FrIdle], ErrorMessage(o.error))
    ELSE [h EXCEPT !.fr.state = "thrown", !.fr.result = o, !.pc = "direct_done"]

\* Mutant: the backoff computed from i instead of i + 1
FrSleepOffByOne(h) ==
    [h EXCEPT !.fr.state = "sleep", !.fr.delays = Append(@, BackoffMs * h.fr.i)]

\* await sleep(1000 * (i + 1))
FrSleep(h) ==
    [h EXCEPT !.fr.state = "sleep", !.fr.delays = Append(@, BackoffMs * (h.fr.i + 1))]

\* Mutant: only res.ok returns at once, a 4xx is retried like a 5xx
FrOnResponseOkOnly(h, o) ==
    LET h1 == [h EXCEPT !.fr.log = Append(@, o)]
    IN  IF Ok(o.status)
        THEN FrReturn(h1, o)
        ELSE IF h1.fr.i = h1.fr.maxRetries THEN FrReturn(h1, o) ELSE FrSleep(h1)

\* Lines 18-22: fetch resolved with a response
FrOnResponse(h, o) ==
    LET h1 == [h EXCEPT !.fr.log = Append(@, o)]
    IN  IF Ok(o.status) \/ (o.status >= 400 /\ o.status < 500 /\ o.status # 429)
        THEN FrReturn(h1, o)
        ELSE IF h1.fr.i = h1.fr.maxRetries THEN FrReturn(h1, o) ELSE FrSleep(h1)

\* Mutant: the catch block without "if (i === maxRetries) throw e"
FrOnErrorNoFinalThrow(h, o) ==
    LET h1 == [h EXCEPT !.fr.log = Append(@, o), !.fr.lastError = o.error]
    IN  IF o.error = "AbortError" THEN FrThrow(h1, o) ELSE FrSleep(h1)

\* Lines 23-27: fetch rejected
FrOnError(h, o) ==
    LET h1 == [h EXCEPT !.fr.log = Append(@, o), !.fr.lastError = o.error]
    IN  IF o.error = "AbortError" THEN FrThrow(h1, o)
        ELSE IF h1.fr.i = h1.fr.maxRetries THEN FrThrow(h1, o) ELSE FrSleep(h1)

\* Line 17: fetch(url, options).  A signal that is already aborted rejects the
\* call at once, without a request.
FrFetch(h) ==
    IF h.signal.aborted
    THEN FrOnError(h, Failure("AbortError"))
    ELSE [h EXCEPT !.fr.state = "fetch", !.calls.ai = @ + 1]

\* Line 15: the loop test.  Falling out of the loop returns undefined.
FrLoop(h) ==
    IF h.fr.i <= h.fr.maxRetries
    THEN FrFetch(h)
    ELSE FrReturn(h, [status |-> Undefined, error |-> "none"])

\* The sleep is over: i++ and the next iteration
FrWake(h) == FrLoop([h EXCEPT !.fr.i = @ + 1])

\* fetchWithRetry(url, options, maxRetries)
fetchWithRetry(h, caller, maxRetries) ==
    FrLoop([h EXCEPT !.fr = [FrIdle EXCEPT !.caller = caller, !.maxRetries = maxRetries]])

\* Lines 234-245: new AbortController, the 2-minute timer, the call
AiStart(h) ==
    fetchWithRetry([h EXCEPT !.pc = "ai", !.signal = [aborted |-> FALSE, armed |-> TRUE]],
                   "handler", DefaultMaxRetries)

\* ------------------------------------------------- search results and fan-out
\* A result item of the provider's "organic" list.  ok: the element is an object
\* (reading .link of a null element throws); link: it has a link; snippet: the
\* length of its snippet, or Undefined.
NullItem == [ok |-> FALSE, link |-> FALSE, snippet |-> Undefined]
Item(link, snippet) == [ok |-> TRUE, link |-> link, snippet |-> snippet]
ItemKinds == {NullItem, Item(TRUE, SnippetLen), Item(TRUE, Undefined)}
OrganicLists == UNION {[1..n -> ItemKinds] : n \in 0..MaxResults}

\* Lengths of the bodies the extraction provider returns: empty, and longer than
\* both truncation limits.
TextLens == {0, MAX_CHARS + ExcerptLen}

NullResults == [isNull |-> TRUE, items |-> <<>>]
Results(items) == [isNull |-> FALSE, items |-> items]

NoContext == [kind |-> "empty", blocks |-> <<>>]
\* Line 195, the general-knowledge sentinel
FallbackContext == [kind |-> "fallback", blocks |-> <<>>]
\* Line 192, the real-results header followed by the joined reference blocks
ResultsContext(blocks) == [kind |-> "results", blocks |-> blocks]

\* Line 98: text.length > MAX_CHARS ? text.slice(0, MAX_CHARS) + marker : text
Truncate(len) == IF len > MAX_CHARS THEN MAX_CHARS + TruncMarkerLen ELSE len

\* Lines 174-179: the value a task fulfils with; markdown || res.snippet
Fulfilled(item, markdown) ==
    [st |-> "fulfilled", content |-> IF Truthy(markdown) THEN markdown ELSE item.snippet]

\* Lines 171-173 up to the first await of one task.  fetchJinaContent returns null
\* without a request when the url is missing.
StartTask(item) ==
    IF ~item.ok THEN [st |-> "rejected", content |-> Undefined]
    ELSE IF ~item.link THEN Fulfilled(item, Null)
    ELSE [st |-> "fetch", content |-> Undefined]

Settled(t) == t.st \in {"fulfilled", "rejected"}

\* Line 187 of one fulfilled task: res.content.slice(0, 2000)
Block(index, content) == [index |-> index, excerpt |-> Min(content, ExcerptLen)]

\* Lines 184-190: map to block or null, filter(Boolean), join
References(ts) ==
    LET idx == [k \in 1..Len(ts) |-> k]
        kept == SelectSeq(idx, LAMBDA k : ts[k].st = "fulfilled")
    IN  [j \in 1..Len(kept) |-> Block(kept[j], ts[kept[j]].content)]

\* .slice of a content that is undefined or null throws a TypeError
SliceThrows(ts) == \E k \in 1..Len(ts) : ts[k].st = "fulfilled" /\ ts[k].content < 0

\* Mutant: the context is assembled without the data-collected banner
AssembleNoBanner(h) ==
    IF SliceThrows(h.tasks)
    THEN Fail(h, SliceTypeErrorMsg)
    ELSE AiStart([h EXCEPT !.searchContext = ResultsContext(References(h.tasks))])

\* Lines 184-193 once Promise.allSettled resolved, then the AI stage
Assemble(h) ==
    IF SliceThrows(h.tasks)
    THEN Fail(h, SliceTypeErrorMsg)
    ELSE AiStart([h EXCEPT !.searchContext = ResultsContext(References(h.tasks)),
                           !.stream = sendStatus(h.stream, CollectedFrame)])

\* Mutant: Promise.all in place of Promise.allSettled: the first rejection throws
AwaitAll(h) ==
    IF \E k \in 1..Len(h.tasks) : h.tasks[k].st = "rejected"
    THEN Fail(h, "Cannot read properties of null (reading 'link')")
    ELSE IF \A k \in 1..Len(h.tasks) : Settled(h.tasks[k])
         THEN Assemble(h)
         ELSE [h EXCEPT !.pc = "fanout"]

\* await Promise.allSettled(contentPromises)
AwaitAllSettled(h) ==
    IF \A k \in 1..Len(h.tasks) : Settled(h.tasks[k])
    THEN Assemble(h)
    ELSE [h EXCEPT !.pc = "fanout"]

\* Lines 166-182
FanOut(h) ==
    LET items == h.searchResults.items
        topResults == SubSeq(items, 1, Min(Len(items), TopN))
        ts == [k \in 1..Len(topResults) |-> StartTask(topResults[k])]
        started == Cardinality({k \in 1..Len(ts) : ts[k].st = "fetch"})
    IN  AwaitAllSettled([h EXCEPT
            !.stream = sendStatus(h.stream, CaptureFrame(Len(items))),
            !.tasks = ts,
            !.calls.jina = @ + started])

\* Mutant: the else branch warns but leaves searchContext as initialised ("")
AfterSearchNoFallback(h, results) ==
    LET h1 == [h EXCEPT !.searchResults = results]
    IN  IF ~results.isNull /\ Len(results.items) > 0
        THEN FanOut(h1)
        ELSE AiStart([h1 EXCEPT !.stream = sendStatus(h1.stream, NoRealtimeFrame)])

\* Lines 165-197 with searchResults assigned
AfterSearch(h, results) ==
    LET h1 == [h EXCEPT !.searchResults = results]
    IN  IF ~results.isNull /\ Len(results.items) > 0
        THEN FanOut(h1)
        ELSE AiStart([h1 EXCEPT !.searchContext = FallbackContext,
                                !.stream = sendStatus(h1.stream, NoRealtimeFrame)])

\* fetchSerperSearch up to its await of fetch (lines 36-55)
fetchSerperSearch(h, query, apiKey) ==
    IF ~query \/ ~apiKey
    THEN AfterSearch(h, NullResults)
    ELSE [h EXCEPT !.pc = "search_fetch", !.calls.search = @ + 1]

\* Mutant: the missing-keyword branch without its return: the pipeline runs on
StartNoKeywordNoReturn(h, keyword, serperKey) ==
    LET h0 == IF ~keyword
              THEN [h EXCEPT !.stream = CloseOk(sendStatus(h.stream, NoKeywordFrame))]
              ELSE h
        h1 == [h0 EXCEPT !.stream = sendStatus(h0.stream, SearchingFrame)]
    IN  IF serperKey
        THEN fetchSerperSearch(h1, keyword, serperKey)
        ELSE AfterSearch([h1 EXCEPT !.stream = sendStatus(h1.stream, NoSearchApiFrame)],
                         Results(<<>>))

\* start(controller), lines 146-163
Start(h, keyword, serperKey) ==
    IF ~keyword
    THEN [h EXCEPT !.pc = "done", !.stream = StatusCloseReturn(h.stream, NoKeywordFrame)]
    ELSE LET h1 == [h EXCEPT !.stream = sendStatus(h.stream, SearchingFrame)]
         IN  IF serperKey
             THEN fetchSerperSearch(h1, keyword, serperKey)
             ELSE AfterSearch([h1 EXCEPT !.stream = sendStatus(h1.stream, NoSearchApiFrame)],
                              Results(<<>>))

\* ----------------------------------------------------------------- actions
\* handler(req): lines 104-133 and 294-300, and start() up to its first await
Handler ==
    /\ pc = "init"
    /\ UNCHANGED req
    /\ IF req.method # "POST" THEN response' = 405 /\ Apply([H EXCEPT !.pc = "responded"])
       ELSE IF ~req.bodyOk THEN response' = 400 /\ Apply([H EXCEPT !.pc = "responded"])
       ELSE IF ~req.aiConfig THEN response' = 500 /\ Apply([H EXCEPT !.pc = "responded"])
       ELSE /\ response' = 200
            /\ Apply(Start([H EXCEPT !.stream = NewStream], req.keyword, req.serperKey))

\* The search fetch settles: lines 57-59, or the catch at 63-65
SearchFetchSettle(outcome) ==
    /\ pc = "search_fetch"
    /\ UNCHANGED <<req, response>>
    /\ IF outcome = "ok"
       THEN Apply([H EXCEPT !.pc = "search_body"])
       ELSE Apply(AfterSearch(H, NullResults))

\* The 8 s timer aborts the search fetch
SearchTimeout ==
    /\ pc = "search_fetch"
    /\ UNCHANGED <<req, response>>
    /\ Apply(AfterSearch(H, NullResults))

\* response.json() settles: line 62, or the catch when the body does not parse
SearchBodySettle(parsed, organic) ==
    /\ pc = "search_body"
    /\ UNCHANGED <<req, response>>
    /\ Apply(AfterSearch(H, IF parsed THEN Results(organic) ELSE NullResults))

\* The fetch of task k settles: lines 92-94, or the catch at 99-101
JinaFetchSettle(k, outcome) ==
    /\ pc = "fanout"
    /\ k \in 1..Len(tasks)
    /\ tasks[k].st = "fetch"
    /\ UNCHANGED <<req, response>>
    /\ Apply(AwaitAllSettled([H EXCEPT !.tasks[k] =
            IF outcome = "ok" THEN [st |-> "body", content |-> Undefined]
            ELSE Fulfilled(searchResults.items[k], Null)]))

\* The 12 s timer of task k aborts its fetch
JinaTimeout(k) ==
    /\ pc = "fanout"
    /\ k \in 1..Len(tasks)
    /\ tasks[k].st = "fetch"
    /\ UNCHANGED <<req, response>>
    /\ Apply(AwaitAllSettled([H EXCEPT !.tasks[k] = Fulfilled(searchResults.items[k], Null)]))

\* response.text() of task k settles: lines 96-98, or the catch
JinaBodySettle(k, ok, len) ==
    /\ pc = "fanout"
    /\ k \in 1..Len(tasks)
    /\ tasks[k].st = "body"
    /\ UNCHANGED <<req, response>>
    /\ Apply(AwaitAllSettled([H EXCEPT !.tasks[k] =
            Fulfilled(searchResults.items[k], IF ok THEN Truncate(len) ELSE Null)]))

\* An attempt's fetch settles with a response or a network error
Statuses == {200, 400, 404, 429, 500, 503}
Outcomes == {Response(s) : s \in Statuses} \cup {Failure("TypeError")}

FetchSettle(o) ==
    /\ fr.state = "fetch"
    /\ UNCHANGED <<req, response>>
    /\ Apply(IF o.error = "none" THEN FrOnResponse(H, o) ELSE FrOnError(H, o))

\* The backoff sleep is over
SleepDone ==
    /\ fr.state = "sleep"
    /\ UNCHANGED <<req, response>>
    /\ Apply(FrWake(H))

\* The caller's signal aborts (in the handler: the 2-minute timer fires).  A fetch
\* in flight rejects with AbortError; sleep() does not look at the signal.
AbortFire ==
    /\ signal.armed /\ ~signal.aborted
    /\ fr.state \in {"fetch", "sleep"}
    /\ UNCHANGED <<req, response>>
    /\ LET h == [H EXCEPT !.signal.aborted = TRUE]
       IN  Apply(IF fr.state = "fetch" THEN FrOnError(h, Failure("AbortError")) ELSE h)

\* upstreamResponse.text() settles
ErrBodies == {"internal error", ""}

AiErrBodySettle(ok, text) ==
    /\ pc = "ai_errbody"
    /\ UNCHANGED <<req, response>>
    /\ Apply(AiErrorBody(H, ok, text))

\* The upstream settles the reader's oldest read request with a chunk, with
\* end-of-stream or with an error; if that is the request the loop awaits, the race
\* settles and the loop runs on.
UpstreamSettle(ev) ==
    /\ pc = "relay"
    /\ relay.pending # <<>>
    /\ IF relay.ended # "no" THEN ev = relay.ended
       ELSE ev = "chunk" => relay.delivered < MaxChunks
    /\ UNCHANGED <<req, response>>
    /\ LET id == Head(relay.pending)
           value == relay.delivered + 1
           r == [relay EXCEPT !.pending = Tail(@),
                              !.delivered = IF ev = "chunk" THEN value ELSE @,
                              !.ended = IF ev = "chunk" THEN "no" ELSE ev]
           h == [H EXCEPT !.relay = r]
       IN  Apply(IF id = relay.readPromise THEN RaceRead(h, ev, value) ELSE h)

\* The 15 s timer fires while the race is pending
KeepAliveFire ==
    /\ pc = "relay"
    /\ relay.timerLeft = 0
    /\ UNCHANGED <<req, response>>
    /\ Apply(RaceKeepAlive([H EXCEPT !.relay = TimerFired(relay)]))

\* Time passes during the race, up to the next timer expiry
Tick ==
    /\ pc = "relay"
    /\ relay.timerLeft > 0
    /\ relay.readAge < MaxStallTicks * TickMs
    /\ UNCHANGED <<req, response, pc, stream, searchResults, tasks, searchContext,
                   upstreamResponse, errText, calls, signal, fr>>
    /\ LET dt == Min(TickMs, relay.timerLeft)
       IN  relay' = [relay EXCEPT !.timerLeft = @ - dt, !.readAge = @ + dt,
                                  !.slow = @ \/ relay.readAge + dt >= KeepAliveMs]

\* The client cancels the response stream while start() is suspended
ClientCancel ==
    /\ response = 200
    /\ pc # "done"
    /\ ~stream.closed
    /\ stream' = [stream EXCEPT !.closed = TRUE, !.cancelled = TRUE]
    /\ UNCHANGED <<req, response, pc, searchResults, tasks, searchContext,
                   upstreamResponse, errText, calls, signal, fr, relay>>

\* ------------------------------------------------------------ specification
Requests == [method : {"POST", "GET"}, bodyOk : BOOLEAN, keyword : BOOLEAN,
             aiConfig : BOOLEAN, serperKey : BOOLEAN]

NoCalls == [search |-> 0, jina |-> 0, ai |-> 0]
NoSignal == [aborted |-> FALSE, armed |-> FALSE]

Init ==
    /\ req \in Requests
    /\ response = 0
    /\ pc = "init"
    /\ stream = NewStream
    /\ searchResults = Results(<<>>)
    /\ tasks = <<>>
    /\ searchContext = NoContext
    /\ upstreamResponse = 0
    /\ errText = Unread
    /\ calls = NoCalls
    /\ signal = NoSignal
    /\ fr = FrIdle
    /\ relay = NoRelay

Next ==
    \/ Handler
    \/ \E outcome \in {"ok", "non-ok", "error"} : SearchFetchSettle(outcome)
    \/ SearchTimeout
    \/ \E parsed \in BOOLEAN, organic \in OrganicLists : SearchBodySettle(parsed, organic)
    \/ \E k \in 1..TopN, outcome \in {"ok", "non-ok", "error"} : JinaFetchSettle(k, outcome)
    \/ \E k \in 1..TopN : JinaTimeout(k)
    \/ \E k \in 1..TopN, ok \in BOOLEAN, len \in TextLens : JinaBodySettle(k, ok, len)
    \/ \E o \in Outcomes : FetchSettle(o)
    \/ SleepDone
    \/ AbortFire
    \/ \E ok \in BOOLEAN, text \in ErrBodies : AiErrBodySettle(ok, text)
    \/ \E ev \in {"chunk", "done", "error"} : UpstreamSettle(ev)
    \/ KeepAliveFire
    \/ Tick
    \/ ClientCancel

Spec == Init /\ [][Next]_vars

\* The same program with what its scheduling guarantees: the handler runs, and a
\* timer that stays armed fires (the 8 s, 12 s and 2-minute abort timers, the
\* backoff sleep, the keep-alive timer; the clock advances).  Of the providers it
\* assumes only that a read of the upstream AI stream settles in the end (the stall
\* of a read is bounded by MaxStallTicks here): a fetch or a response body may
\* never settle.
Fairness ==
    /\ WF_vars(Handler)
    /\ WF_vars(SearchTimeout)
    /\ \A k \in 1..TopN : WF_vars(JinaTimeout(k))
    /\ WF_vars(AbortFire)
    /\ WF_vars(SleepDone)
    /\ WF_vars(KeepAliveFire)
    /\ WF_vars(Tick)
    /\ WF_vars(\E ev \in {"chunk", "done", "error"} : UpstreamSettle(ev))

SpecLive == Init /\ [][Next]_vars /\ Fairness

\* A direct call of fetchWithRetry(url, options, maxRetries) with a signal the
\* caller may abort at any time.
InitFetch ==
    /\ req = [method |-> "POST", bodyOk |-> TRUE, keyword |-> TRUE,
              aiConfig |-> TRUE, serperKey |-> FALSE]
    /\ response = 0
    /\ pc = "direct"
    /\ stream = NewStream
    /\ searchResults = Results(<<>>)
    /\ tasks = <<>>
    /\ searchContext = NoContext
    /\ upstreamResponse = 0
    /\ errText = Unread
    /\ calls = NoCalls
    /\ signal \in [aborted : BOOLEAN, armed : {TRUE}]
    /\ fr \in {[FrIdle EXCEPT !.maxRetries = m] : m \in 0..MaxRetriesBound}
    /\ relay = NoRelay

DirectCall ==
    /\ pc = "direct"
    /\ fr.state = "idle"
    /\ UNCHANGED <<req, response>>
    /\ Apply(fetchWithRetry([H EXCEPT !.pc = "direct_call"], "direct", fr.maxRetries))

NextFetch ==
    \/ DirectCall
    \/ \E o \in Outcomes : FetchSettle(o)
    \/ SleepDone
    \/ AbortFire

SpecFetch == InitFetch /\ [][NextFetch]_vars

\* A request whose search returns a ranked list around the fan-out's limit of
\* TopN results, all well-formed except possibly the second, up to the AI request.
RankedLists ==
    {[k \in 1..n |-> IF k = f THEN NullItem ELSE Item(TRUE, SnippetLen)] :
        n \in (TopN - 1)..MaxRanked, f \in {0, 2}}

InitFanOut ==
    /\ Init
    /\ req = [method |-> "POST", bodyOk |-> TRUE, keyword |-> TRUE,
              aiConfig |-> TRUE, serperKey |-> TRUE]

NextFanOut ==
    \/ Handler
    \/ SearchFetchSettle("ok")
    \/ \E organic \in RankedLists : SearchBodySettle(TRUE, organic)
    \/ \E k \in 1..TopN, outcome \in {"ok", "error"} : JinaFetchSettle(k, outcome)
    \/ \E k \in 1..TopN : JinaTimeout(k)
    \/ \E k \in 1..TopN : JinaBodySettle(k, TRUE, MAX_CHARS + ExcerptLen)

SpecFanOut == InitFanOut /\ [][NextFanOut]_vars

\* ------------------------------------------------------------------ claims
Frames == stream.frames
IsChunk(f) == f.kind = "chunk"
IsKeepAlive(f) == f.kind = "keepalive"
IsErrorFrame(f) == f.kind = "status" /\ f.text \in {"AI Error", "System Error", "no-keyword"}
ChunkPos == {i \in DOMAIN Frames : IsChunk(Frames[i])}
KeepAlivePos == {i \in DOMAIN Frames : IsKeepAlive(Frames[i])}
ErrorFrameCount == Cardinality({i \in DOMAIN Frames : IsErrorFrame(Frames[i])})
Last(seq) == seq[Len(seq)]
Max0(S) == IF S = {} THEN 0 ELSE CHOOSE m \in S : \A x \in S : x <= m

\* The ids of the upstream chunks on the wire, in wire order
ChunkIds == LET cs == SelectSeq(Frames, IsChunk) IN [j \in 1..Len(cs) |-> cs[j].code]
\* Position of the last upstream chunk on the wire (0: none)
LastChunkPos == Max0(ChunkPos)
\* Keep-alive frames after the last upstream chunk
KaTrailing == Cardinality({i \in KeepAlivePos : i > LastChunkPos})
\* Keep-alive frames between the last upstream chunk and the chunk before it
KaBeforeLastChunk ==
    LET prev == Max0({i \in ChunkPos : i < LastChunkPos})
    IN  Cardinality({i \in KeepAlivePos : prev < i /\ i < LastChunkPos})
\* Times the stream went from open to closed: by a close() call or by the client
TimesClosed == stream.closeOk + (IF stream.cancelled THEN 1 ELSE 0)

\* C1: on every path of a request that opened the stream (missing keyword, AI
\* handshake failure, end of upstream, error anywhere) the stream is closed exactly
\* once: it never goes from open to closed twice, a close() after the closing one
\* throws and is swallowed, and when start() has returned the stream is closed.
C1_ClosedExactlyOnce ==
    /\ TimesClosed <= 1
    /\ stream.closed <=> TimesClosed = 1
    /\ (pc = "done" /\ response = 200) => stream.closed /\ TimesClosed = 1

\* The missing-keyword and AI-error paths call close() twice: the second throws.
C1_Witness ==
    /\ pc = "done" /\ ~stream.cancelled
    /\ stream.closeOk = 1 /\ stream.closeThrown = 1
    /\ upstreamResponse = 500

\* C2: during the relay, whatever the interleaving of read completions and timer
\* expiries, the upstream chunks on the wire are the chunks the reader produced so
\* far, each once and in order (never more than produced, and all of them while the
\* client is connected).
C2_RelayVerbatim ==
    /\ \A j \in 1..Len(ChunkIds) : ChunkIds[j] = j
    /\ Len(ChunkIds) <= relay.delivered
    /\ ~stream.cancelled => Len(ChunkIds) = relay.delivered

\* Two chunks relayed with a keep-alive frame between them
C2_Witness ==
    /\ ~stream.cancelled
    /\ relay.delivered = 2
    /\ \E i, j, k \in DOMAIN Frames :
          /\ i < j /\ j < k
          /\ Frames[i] = ChunkFrame(1) /\ IsKeepAlive(Frames[j]) /\ Frames[k] = ChunkFrame(2)

\* n keep-alive frames fit a read that took `latency` ms: the timer expired n times
\* while the read was pending (an expiry at the very instant the read settles may
\* come first or not at all).
Fits(n, latency) == n * KeepAliveMs <= latency /\ latency <= (n + 1) * KeepAliveMs

\* C3: one keep-alive frame per 15 s timer expiry during a pending read and none
\* otherwise: while a read is pending the keep-alive frames since the last chunk
\* number the timer periods that have fully elapsed, so a read that takes strictly
\* between 15 s and 30 s is preceded by exactly one keep-alive frame, and a read that
\* settles in under 15 s by none.
C3_KeepAlivePerExpiry ==
    /\ pc = "relay" =>
          KaTrailing * KeepAliveMs + (KeepAliveMs - relay.timerLeft) = relay.readAge
    /\ (pc = "relay" /\ ~stream.cancelled /\ relay.delivered > 0) =>
          Fits(KaBeforeLastChunk, relay.lastLatency)
    /\ (pc = "done" /\ ~stream.cancelled /\ relay.ended # "no") =>
          Fits(KaTrailing, relay.lastLatency)

\* A chunk that arrived after a stall between 15 s and 30 s, behind one keep-alive
C3_Witness ==
    /\ pc = "relay" /\ ~stream.cancelled
    /\ relay.lastLatency > KeepAliveMs /\ relay.lastLatency < 2 * KeepAliveMs
    /\ Len(Frames) >= 2
    /\ IsChunk(Last(Frames)) /\ IsKeepAlive(Frames[Len(Frames) - 1])
    /\ KaBeforeLastChunk = 1

\* The fan-out's inputs and failures: N results go into the fan-out, K of their
\* tasks reject (a task rejects exactly when its result item is not an object).
FanN == Min(Len(searchResults.items), TopN)
FanK == Cardinality({k \in 1..FanN : ~searchResults.items[k].ok})

\* The fan-out ran on at least one result and every task has settled
FanOutOver == FanN >= 1 /\ pc \in {"ai", "ai_errbody", "relay", "done"}

\* C4: given N inputs (1 <= N <= 8) of which K extraction tasks fail, the fan-out
\* never raises and produces a context of exactly N-K reference blocks, numbered
\* 1..(N-K) in rank order.
C4_NumberedFromOne ==
    FanOutOver =>
        /\ searchContext.kind = "results"
        /\ Len(searchContext.blocks) = FanN - FanK
        /\ \A j \in 1..Len(searchContext.blocks) : searchContext.blocks[j].index = j

\* C5: with no search results (null or empty), or with every extraction task
\* dropped, the SearchContext is the fallback sentinel, not a results header with
\* no reference blocks.
C5_FallbackWhenNoBlocks ==
    (/\ searchContext.kind # "empty"
     /\ \/ searchResults.isNull
        \/ Len(searchResults.items) = 0
        \/ FanK = FanN)
    => searchContext = FallbackContext

\* C6: whatever the search provider and the extraction calls do, the pipeline emits
\* no error frame because of them and goes on to issue the AI request.
C6_SearchNeverAborts ==
    (pc = "done" /\ response = 200 /\ req.keyword) =>
        /\ calls.ai >= 1
        /\ \A i \in DOMAIN Frames : Frames[i] # SystemErrorFrame(SliceTypeErrorMsg)

\* The stage banners that may precede the AI stage, none of them twice
StageBanners(fs) ==
    /\ \A i \in DOMAIN fs :
          \/ fs[i] \in {SearchingFrame, NoSearchApiFrame, CollectedFrame, NoRealtimeFrame}
          \/ fs[i] = CaptureFrame(Len(searchResults.items))
    /\ \A i, j \in DOMAIN fs : fs[i] = fs[j] => i = j

\* C7: when the AI handshake ends with a non-success response, the stream holds
\* exactly one error frame, it is the last frame and carries the status code and the
\* response body, nothing was relayed, no frame stands for a retry, and the stream
\* is closed.  (While the client is connected.  A body that cannot be read leaves
\* the read error in that one frame instead.)
C7_AiErrorFrame ==
    (pc = "done" /\ ~stream.cancelled /\ upstreamResponse # 0 /\ ~Ok(upstreamResponse)) =>
        /\ Frames # <<>>
        /\ IF errText # Unread
           THEN Last(Frames) = AiErrorFrame(upstreamResponse, errText)
           ELSE Last(Frames) = SystemErrorFrame(BodyReadMsg)
        /\ ErrorFrameCount = 1
        /\ ChunkPos = {} /\ KeepAlivePos = {}
        /\ StageBanners(SubSeq(Frames, 1, Len(Frames) - 1))
        /\ stream.closed /\ stream.closeOk = 1

\* Status 500 with body "internal error" after fetchWithRetry used up its retries
C7_Witness ==
    /\ pc = "done" /\ ~stream.cancelled
    /\ upstreamResponse = 500 /\ errText = "internal error"
    /\ calls.ai = DefaultMaxRetries + 1
    /\ Last(Frames) = AiErrorFrame(500, "internal error")
    /\ stream.closed

\* C8: when an upstream read rejects during the relay, exactly one error frame is
\* emitted, after every chunk relayed so far, nothing follows it, and the stream is
\* closed.  (While the client is connected.)
C8_RelayErrorTerminal ==
    (pc = "done" /\ ~stream.cancelled /\ relay.ended = "error") =>
        /\ Frames # <<>>
        /\ Last(Frames) = SystemErrorFrame(UpstreamMsg)
        /\ ErrorFrameCount = 1
        /\ Len(ChunkIds) = relay.delivered
        /\ \A i \in ChunkPos \cup KeepAlivePos : i < Len(Frames)
        /\ stream.closed /\ stream.closeOk = 1

\* A read rejects after a chunk and a keep-alive frame were relayed
C8_Witness ==
    /\ pc = "done" /\ ~stream.cancelled /\ relay.ended = "error"
    /\ relay.delivered >= 1 /\ KeepAlivePos # {}
    /\ Last(Frames) = SystemErrorFrame(UpstreamMsg)

\* Outcomes of one attempt
Retryable(o) == o.error = "none" /\ (o.status = 429 \/ o.status >= 500)
Success(o) == o.error = "none" /\ Ok(o.status)
Terminal4xx(o) == o.error = "none" /\ o.status >= 400 /\ o.status < 500 /\ o.status # 429

RECURSIVE SumSeq(_)
SumSeq(seq) == IF seq = <<>> THEN 0 ELSE Head(seq) + SumSeq(Tail(seq))

\* C9: when the first k attempts (k <= maxRetries) are retryable responses (5xx,
\* 429) and attempt k+1 succeeds, fetchWithRetry returns that success after exactly
\* k+1 attempts, having slept 1000*j ms before attempt j+1: 1000*(1+...+k) in all.
C9_RetryThenSuccess ==
    LET n == Len(fr.log)
        k == n - 1
    IN  (/\ n >= 1
         /\ Success(fr.log[n])
         /\ \A j \in 1..k : Retryable(fr.log[j]))
        => /\ k <= fr.maxRetries
           /\ fr.state = "returned"
           /\ fr.result = fr.log[n]
           /\ calls.ai = k + 1
           /\ fr.delays = [j \in 1..k |-> 1000 * j]
           /\ SumSeq(fr.delays) = 1000 * ((k * (k + 1)) \div 2)

\* Two retryable responses, then a success
C9_Witness ==
    /\ fr.state = "returned"
    /\ Len(fr.log) = 3
    /\ Retryable(fr.log[1]) /\ Retryable(fr.log[2]) /\ Success(fr.log[3])
    /\ fr.result = fr.log[3]
    /\ fr.delays = <<1000, 2000>>

\* C10: a response with a status in [400,500) other than 429 is returned at once,
\* on whichever attempt it arrives: it is the last attempt, no backoff follows it,
\* and as the first response it is the only attempt.
C10_ClientErrorReturnsAtOnce ==
    \A j \in 1..Len(fr.log) :
        Terminal4xx(fr.log[j]) =>
            /\ j = Len(fr.log)
            /\ fr.state = "returned"
            /\ fr.result = fr.log[j]
            /\ calls.ai = j
            /\ Len(fr.delays) = j - 1

\* A 4xx as the first response: one attempt, no delay
C10_Witness ==
    /\ fr.state = "returned"
    /\ Len(fr.log) = 1 /\ Terminal4xx(fr.log[1])
    /\ calls.ai = 1 /\ fr.delays = <<>>

\* C11: when the caller's signal aborts at any point of a fetchWithRetry call, during
\* an attempt or during a backoff wait, the call rejects with the abort at once: from
\* the abort on the call is over, no attempt is pending and no backoff is waited out.
C11_AbortRejectsAtOnce ==
    (signal.aborted /\ fr.state # "idle") =>
        /\ fr.state = "thrown"
        /\ fr.result = Failure("AbortError")

\* C12: for every maxRetries >= 0 and every sequence of attempt outcomes,
\* fetchWithRetry makes at most maxRetries+1 attempts and ends by returning a real
\* response or rethrowing a real error, never undefined: what it returns or throws
\* is the outcome of its last attempt as it was, and once maxRetries+1 attempts have
\* been made the call is over.
C12_LastOutcomeSurfaced ==
    /\ Len(fr.log) <= fr.maxRetries + 1
    /\ calls.ai <= fr.maxRetries + 1
    /\ Len(fr.delays) <= fr.maxRetries
    /\ fr.state = "returned" =>
          /\ fr.log # <<>> /\ fr.result = Last(fr.log)
          /\ fr.result.error = "none" /\ fr.result.status \in Statuses
    /\ fr.state = "thrown" =>
          /\ fr.log # <<>> /\ fr.result = Last(fr.log)
          /\ fr.result.error \in {"AbortError", "TypeError"}
    /\ (fr.caller = "direct" /\ Len(fr.log) = fr.maxRetries + 1) =>
          fr.state \in {"returned", "thrown"}

\* Three attempts with maxRetries = 2, a network error among them, all retryable:
\* the last attempt's 5xx/429 response is what the call returns
C12_Witness ==
    /\ fr.state = "returned" /\ fr.maxRetries = 2
    /\ Len(fr.log) = 3 /\ calls.ai = 3
    /\ fr.log[2] = Failure("TypeError")
    /\ Retryable(fr.log[3]) /\ fr.result = fr.log[3]

\* C13: when the request body has no keyword and the AI configuration is present,
\* the stream holds exactly one frame, the missing-keyword error status frame, it is
\* closed, start() has returned, and no search, extraction or AI request was made.
C13_NoKeywordOneFrame ==
    (response = 200 /\ ~req.keyword) =>
        /\ pc = "done"
        /\ Frames = <<NoKeywordFrame>>
        /\ ErrorFrameCount = 1
        /\ stream.closed /\ stream.closeOk = 1 /\ ~stream.cancelled
        /\ calls = NoCalls

\* A POST with a parsable body, no keyword, AI configured and a search key set
C13_Witness ==
    /\ response = 200 /\ ~req.keyword /\ req.serperKey
    /\ pc = "done" /\ stream.closed
    /\ Frames = <<NoKeywordFrame>>

\* Search returned a non-empty list of well-formed results and every extraction
\* task of the fan-out fulfilled with extracted text
Extracted(t) == t.st = "fulfilled" /\ t.content \in {Truncate(l) : l \in TextLens} \ {0}
ValidData ==
    /\ ~searchResults.isNull /\ FanN >= 1 /\ Len(tasks) = FanN
    /\ \A k \in 1..FanN :
          /\ searchResults.items[k] = Item(TRUE, SnippetLen)
          /\ Extracted(tasks[k])
Banners == <<SearchingFrame, CaptureFrame(Len(searchResults.items)), CollectedFrame>>

\* C14: when search and extraction return valid data and the AI handshake succeeds,
\* the wire holds the frames in generation order: the search banner, the capture
\* banner, the data-collected banner, then the relayed chunks (with keep-alive
\* frames only), then closure; no chunk or keep-alive frame precedes the
\* data-collected banner, and there is no keep-alive frame at all while every
\* upstream read has settled in under 15 s.  (While the client is connected; a read
\* that rejects adds the one error frame of the relay before closure.)
C14_GenerationOrder ==
    /\ (response = 200 /\ req.keyword /\ req.serperKey /\ ~stream.cancelled) =>
          /\ pc \in {"search_fetch", "search_body"} => Frames = SubSeq(Banners, 1, 1)
          /\ pc = "fanout" => Frames = SubSeq(Banners, 1, 2)
    /\ (ValidData /\ ~stream.cancelled /\ pc = "ai") => Frames = Banners
    /\ (ValidData /\ ~stream.cancelled /\ Ok(upstreamResponse)) =>
          /\ Len(Frames) >= 3 /\ SubSeq(Frames, 1, 3) = Banners
          /\ \A i \in ChunkPos \cup KeepAlivePos : i > 3
          /\ \A i \in 4..Len(Frames) :
                \/ IsChunk(Frames[i]) \/ IsKeepAlive(Frames[i])
                \/ /\ i = Len(Frames) /\ relay.ended = "error"
                   /\ Frames[i] = SystemErrorFrame(UpstreamMsg)
          /\ \A j \in 1..Len(ChunkIds) : ChunkIds[j] = j
          /\ ~relay.slow => KeepAlivePos = {}
          /\ pc = "done" => stream.closed /\ stream.closeOk = 1

\* Scenario A: one result, extracted; two chunks relayed, each read under 15 s;
\* the upstream ends and the stream is closed
C14_Witness ==
    /\ pc = "done" /\ ~stream.cancelled /\ stream.closed
    /\ ValidData /\ Ok(upstreamResponse)
    /\ relay.ended = "done" /\ ~relay.slow
    /\ Frames = Banners \o <<ChunkFrame(1), ChunkFrame(2)>>

\* C15: when no search API key is configured, no search or extraction request is
\* made, the stream carries the "theoretical analysis only" warning frame (after the
\* search banner, before the no-realtime-data banner), the SearchContext is the
\* fallback sentinel, the AI request is issued, and after a successful handshake the
\* relay runs.
C15_NoSearchKey ==
    (response = 200 /\ req.keyword /\ ~req.serperKey) =>
        /\ calls.search = 0 /\ calls.jina = 0
        /\ Len(Frames) >= 3
        /\ SubSeq(Frames, 1, 3) = <<SearchingFrame, NoSearchApiFrame, NoRealtimeFrame>>
        /\ searchContext = FallbackContext
        /\ pc \in {"ai", "ai_errbody", "relay", "done"}
        /\ calls.ai >= 1
        /\ Ok(upstreamResponse) => relay.issued >= 1
        /\ (Ok(upstreamResponse) /\ ~stream.cancelled) => Len(ChunkIds) = relay.delivered

\* No search key: the three banners, then the first relayed chunk
C15_Witness ==
    /\ response = 200 /\ req.keyword /\ ~req.serperKey
    /\ pc = "relay" /\ relay.delivered = 1
    /\ searchContext = FallbackContext
    /\ Frames = <<SearchingFrame, NoSearchApiFrame, NoRealtimeFrame, ChunkFrame(1)>>

\* C16: the fan-out starts one extraction task per result of the top min(N, 8), each
\* making its one request; the data-collected banner and the AI request come only
\* after every one of those tasks has settled; a task fails only on its own result,
\* whatever its siblings did; and the blocks assembled are those of the fulfilled
\* tasks in rank order, whatever the order in which the tasks completed.
C16_FanOutBarrier ==
    FanN >= 1 =>
        /\ Len(tasks) = Min(Len(searchResults.items), TopN)
        /\ calls.jina = Cardinality({k \in 1..Len(tasks) :
                            searchResults.items[k].ok /\ searchResults.items[k].link})
        /\ (\A k \in 1..FanN : searchResults.items[k] = Item(TRUE, SnippetLen)) =>
              calls.jina = Min(Len(searchResults.items), TopN)
        /\ \A k \in 1..Len(tasks) : tasks[k].st = "rejected" <=> ~searchResults.items[k].ok
        /\ pc = "fanout" =>
              /\ \E k \in 1..Len(tasks) : ~Settled(tasks[k])
              /\ calls.ai = 0 /\ searchContext = NoContext
        /\ (pc # "fanout" \/ calls.ai > 0 \/ \E i \in DOMAIN Frames : Frames[i] = CollectedFrame) =>
              \A k \in 1..Len(tasks) : Settled(tasks[k])
        /\ (pc # "fanout" /\ ~SliceThrows(tasks)) =>
              /\ searchContext.kind = "results"
              /\ calls.ai >= 1
        /\ searchContext.kind = "results" =>
              LET blocks == searchContext.blocks
              IN  /\ {blocks[j].index : j \in 1..Len(blocks)} =
                        {k \in 1..Len(tasks) : tasks[k].st = "fulfilled"}
                  /\ \A i, j \in 1..Len(blocks) : i < j => blocks[i].index < blocks[j].index
                  /\ \A j \in 1..Len(blocks) :
                        blocks[j].excerpt = Min(tasks[blocks[j].index].content, ExcerptLen)

\* Nine results: eight tasks, the second rejected, the third fell back to its
\* snippet, the others extracted; seven blocks in rank order
C16_Witness ==
    /\ pc = "ai" /\ Len(searchResults.items) = TopN + 1
    /\ Len(tasks) = TopN /\ calls.jina = TopN - 1
    /\ tasks[2].st = "rejected"
    /\ tasks[3] = [st |-> "fulfilled", content |-> SnippetLen]
    /\ \A k \in 1..TopN : k \notin {2, 3} => Extracted(tasks[k])
    /\ Len(searchContext.blocks) = TopN - 1

\* C17: a status-frame emission on a stream that is already closed or cancelled is
\* swallowed: it appends no frame and the stream stays as it was, and it raises
\* nothing, so the pipeline runs on as if the frame had been written (the only way it
\* ends before the AI request is the TypeError of C6); hence no frame is ever
\* appended to a stream once it is closed.
C17_EmissionFailureSwallowed ==
    /\ [](stream.swallowed > 0 => stream.closed)
    /\ []((pc = "done" /\ response = 200 /\ req.keyword /\ calls.ai = 0) =>
             SliceThrows(tasks))
    /\ [][/\ stream.closed => (stream'.closed /\ stream'.frames = stream.frames)
          /\ stream'.swallowed > stream.swallowed =>
                (stream.closed /\ stream'.frames = stream.frames)]_vars

\* The client left during the search; the capture and data-collected banners were
\* swallowed and the pipeline went on into the relay
C17_Witness ==
    /\ stream.cancelled /\ stream.swallowed >= 2
    /\ pc = "relay"
    /\ Frames = <<SearchingFrame>>

\* C18: once the client has disconnected during the relay, the next write of a chunk
\* or of a keep-alive frame fails and ends the relay: from a relay whose client is
\* gone a step either only lets time pass or leaves the loop for good, no step
\* issues a read or writes a frame, and when start() has returned the stream is
\* closed without close() ever having taken effect.
C18_WriteFailureTerminal ==
    /\ []((pc = "done" /\ stream.cancelled) => (stream.closed /\ stream.closeOk = 0))
    /\ [][(stream.cancelled /\ pc = "relay") =>
            /\ relay'.issued = relay.issued
            /\ stream'.frames = stream.frames /\ stream'.closed
            /\ \/ /\ pc' = "done"
                  /\ stream'.closeThrown = stream.closeThrown + 1
               \/ /\ pc' = "relay"
                  /\ relay'.readAge > relay.readAge
                  /\ relay'.timers = relay.timers
                  /\ relay'.delivered = relay.delivered]_vars

\* The client left after the first chunk; the write of the second failed: nothing
\* was written, no third read was issued, start() has returned
C18_Witness ==
    /\ pc = "done" /\ stream.cancelled /\ stream.closed
    /\ relay.delivered = 2 /\ relay.issued = 2 /\ relay.ended = "no"
    /\ ChunkIds = <<1>>
    /\ stream.swallowed = 1 /\ stream.closeThrown = 1

\* C19: in every state of the relay there is at most one outstanding upstream read
\* and at most one armed keep-alive timer; a read is issued only when the chunk of the
\* read before it is on the wire; and a keep-alive expiry neither issues a read nor
\* drops the pending one.
C19_OneReadOneTimer ==
    /\ [](/\ Len(relay.pending) <= 1
          /\ relay.timers \in {0, 1}
          /\ pc = "relay" =>
                /\ relay.pending = <<relay.readPromise>>
                /\ relay.timers = 1 /\ relay.timerLeft # Null
          /\ relay.issued > 0 => relay.issued = Len(ChunkIds) + 1)
    /\ [][(\/ /\ pc = "relay" /\ relay.timerLeft = 0
              /\ relay'.delivered = relay.delivered /\ relay'.ended = relay.ended
           \/ Len(SelectSeq(stream'.frames, IsKeepAlive)) > Cardinality(KeepAlivePos)) =>
            /\ relay'.issued = relay.issued
            /\ relay'.readPromise = relay.readPromise
            /\ relay'.pending = relay.pending
            /\ relay'.delivered = relay.delivered]_vars

\* Second read pending behind a keep-alive frame: one read, one timer
C19_Witness ==
    /\ pc = "relay" /\ ~stream.cancelled
    /\ relay.issued = 2 /\ relay.pending = <<2>>
    /\ relay.timers = 1
    /\ Frames # <<>> /\ IsKeepAlive(Last(Frames))

\* C20: every request that opens the output stream eventually closes it, given only
\* that the abort timers fire when armed: no provider that sends its response
\* headers and then stalls can keep the stream open for ever.
C20_EventuallyClosed == (response = 200) ~> stream.closed
====
